---- MODULE Spec2Model ----
(***************************************************************************)
(* Model of the WGSL lexer of naga (src/front/wgsl/lexer.rs).              *)
(*                                                                         *)
(* A string slice is a sequence of characters; a character is a one-       *)
(* character string, or one of the names "U+E6", "U+F8", "U+BE", "U+597D"  *)
(* for the multi-byte characters the tests use.  Offsets and spans are in  *)
(* bytes, as in the source: see Utf8Len and str_len.                       *)
(***************************************************************************)
EXTENDS Integers, Sequences, FiniteSets, TLC

VARIABLES source, input, res, pc, nargs

vars == <<source, input, res, pc, nargs>>

----------------------------------------------------------------------------
(* Characters and string slices *)

Digits == {"0", "1", "2", "3", "4", "5", "6", "7", "8", "9"}

LowerCase == {"a", "b", "c", "d", "e", "f", "g", "h", "i", "j", "k", "l", "m",
              "n", "o", "p", "q", "r", "s", "t", "u", "v", "w", "x", "y", "z"}

UpperCase == {"A", "B", "C", "D", "E", "F", "G", "H", "I", "J", "K", "L", "M",
              "N", "O", "P", "Q", "R", "S", "T", "U", "V", "W", "X", "Y", "Z"}

WhiteSpace == {" ", "\n", "\r", "\t"}

LineBreaks == {"\n", "\r"}

\* char::len_utf8 of the characters of the model
Utf8Len(c) ==
  CASE c \in {"U+E6", "U+F8", "U+BE"} -> 2
    [] c = "U+597D" -> 3
    [] OTHER -> 1

\* the characters |c| c.is_ascii_alphanumeric() || c == '_' accepts
WordChars == Digits \cup LowerCase \cup UpperCase \cup {"_"}

\* str::len: the length of a slice in bytes
RECURSIVE str_len(_)
str_len(s) == IF s = <<>> THEN 0 ELSE Utf8Len(Head(s)) + str_len(Tail(s))

\* the slice without its first n characters
DropChars(s, n) == SubSeq(s, n + 1, Len(s))

\* the first n characters of the slice
TakeChars(s, n) == SubSeq(s, 1, n)

\* the number of characters of s that make up its first n bytes
\* (str::split_at panics off a character boundary: -1 stands for the panic)
RECURSIVE CharsOfBytes(_, _)
CharsOfBytes(s, n) ==
  IF n = 0 THEN 0
  ELSE IF s = <<>> \/ Utf8Len(Head(s)) > n THEN -1
  ELSE LET k == CharsOfBytes(Tail(s), n - Utf8Len(Head(s)))
       IN IF k = -1 THEN -1 ELSE k + 1

\* str::find(|c| !what(c)).unwrap_or_else(|| input.len()), counted in
\* characters, for a predicate `what` given as the set of characters it accepts
RECURSIVE FindNot(_, _)
FindNot(s, what) ==
  IF s = <<>> \/ Head(s) \notin what THEN 0 ELSE 1 + FindNot(Tail(s), what)

\* the 1-based index of the first character of s in set, 0 if there is none
RECURSIVE Position(_, _)
Position(s, set) ==
  IF s = <<>> THEN 0
  ELSE IF Head(s) \in set THEN 1
  ELSE LET k == Position(Tail(s), set) IN IF k = 0 THEN 0 ELSE k + 1

----------------------------------------------------------------------------
(* Tokens *)

NoText == <<>>

Tok(kind, ch, text) == [kind |-> kind, ch |-> ch, text |-> text, ty |-> "", width |-> NoText]

End == Tok("End", "", NoText)
Trivia == Tok("Trivia", "", NoText)
DoubleColon == Tok("DoubleColon", "", NoText)
Arrow == Tok("Arrow", "", NoText)
UnterminatedString == Tok("UnterminatedString", "", NoText)
Separator(c) == Tok("Separator", c, NoText)
Paren(c) == Tok("Paren", c, NoText)
DoubleParen(c) == Tok("DoubleParen", c, NoText)
Operation(c) == Tok("Operation", c, NoText)
LogicalOperation(c) == Tok("LogicalOperation", c, NoText)
ShiftOperation(c) == Tok("ShiftOperation", c, NoText)
Unknown(c) == Tok("Unknown", c, NoText)
Word(w) == Tok("Word", "", w)
String(s) == Tok("String", "", s)
Number(value, ty, width) ==
  [kind |-> "Number", ch |-> "", text |-> value, ty |-> ty, width |-> width]

----------------------------------------------------------------------------
(* The raw scanner *)

consume_any(inp, what) ==
  LET pos == FindNot(inp, what)
  IN [head |-> TakeChars(inp, pos), rest |-> DropChars(inp, pos)]

\* the closure `what` taking a '.' right after an exponent marker as well
RECURSIVE NumberCoreDot(_, _, _)
NumberCoreDot(s, is_first_char, right_after_exponent) ==
  IF s = <<>> THEN 0
  ELSE IF is_first_char
  THEN IF Head(s) = "-" \/ Head(s) \in Digits \/ Head(s) = "."
       THEN 1 + NumberCoreDot(Tail(s), FALSE, right_after_exponent) ELSE 0
  ELSE IF Head(s) = "e" \/ Head(s) = "E"
  THEN 1 + NumberCoreDot(Tail(s), FALSE, TRUE)
  ELSE IF Head(s) \in Digits \/ Head(s) = "." \/ (right_after_exponent /\ Head(s) = "-")
       THEN 1 + NumberCoreDot(Tail(s), FALSE, FALSE) ELSE 0

\* the closure `what` taking a '-' wherever it takes a '.'
RECURSIVE NumberCoreMinus(_, _, _)
NumberCoreMinus(s, is_first_char, right_after_exponent) ==
  IF s = <<>> THEN 0
  ELSE IF Head(s) \in Digits \cup {"-", "."} \/ (~is_first_char /\ Head(s) \in {"e", "E"})
  THEN 1 + NumberCoreMinus(Tail(s), FALSE, FALSE) ELSE 0

\* the closure `what` of consume_number, run over the slice: the number of
\* characters it accepts before the first one it rejects
RECURSIVE NumberCore(_, _, _)
NumberCore(s, is_first_char, right_after_exponent) ==
  IF s = <<>> THEN 0
  ELSE IF is_first_char
  THEN IF Head(s) = "-" \/ Head(s) \in Digits \/ Head(s) = "."
       THEN 1 + NumberCore(Tail(s), FALSE, right_after_exponent) ELSE 0
  ELSE IF Head(s) = "e" \/ Head(s) = "E"
  THEN 1 + NumberCore(Tail(s), FALSE, TRUE)
  ELSE IF right_after_exponent
  THEN IF Head(s) \in Digits \/ Head(s) = "-"
       THEN 1 + NumberCore(Tail(s), FALSE, FALSE) ELSE 0
  ELSE IF Head(s) \in Digits \/ Head(s) = "."
       THEN 1 + NumberCore(Tail(s), FALSE, FALSE) ELSE 0

\* WidthEnd with unwrap_or(0): digits that run to the end of input are no width
WidthEndZero(rest, nondigit) ==
  IF nondigit < Len(Tail(rest)) THEN nondigit ELSE 0

\* rest_iter.position(|c| !digit).unwrap_or_else(|| rest.len() - 1), where
\* rest_iter is past the type character
WidthEnd(rest, nondigit) ==
  IF nondigit < Len(Tail(rest)) THEN nondigit ELSE str_len(rest) - 1

\* rest[1..].split_at(width_end): the token with its width, and the rest
NumberWithWidth(value, ty, tail, k) ==
  [token |-> Number(value, ty, TakeChars(tail, k)), rest |-> DropChars(tail, k)]

\* the match on the character after the core
NumberSuffix(value, rest, ty) ==
  IF ty \in {"u", "i", "f"}
  THEN NumberWithWidth(value, ty, Tail(rest),
         CharsOfBytes(Tail(rest), WidthEnd(rest, FindNot(Tail(rest), Digits))))
  ELSE [token |-> Number(value,
                         IF \E i \in 1..Len(value) : value[i] = "." THEN "f" ELSE "i",
                         NoText),
        rest |-> rest]

\* input.split_at(pos), and the character after the core (' ' at the end)
NumberSplit(value, rest) ==
  NumberSuffix(value, rest, IF rest = <<>> THEN " " ELSE Head(rest))

NumberAt(inp, pos) == NumberSplit(TakeChars(inp, pos), DropChars(inp, pos))

consume_number(inp) == NumberAt(inp, NumberCore(inp, TRUE, FALSE))

\* the '"' arm of consume_token: q is the place of the closing quote in chars
QuotedString(chars, q) ==
  IF q > 0
  THEN [token |-> String(TakeChars(chars, q - 1)), rest |-> DropChars(chars, q)]
  ELSE [token |-> UnterminatedString, rest |-> chars]

\* a comment that runs to the end of the input, over its line breaks
LineCommentToEnd(chars, p) == [token |-> Trivia, rest |-> <<>>]

\* the line-comment arm of consume_token: p is the place of the line break
LineComment(chars, p) ==
  [token |-> Trivia, rest |-> IF p > 0 THEN DropChars(chars, p) ELSE <<>>]

\* the arms of consume_token that do not start a number: cur is the first
\* character, chars the slice after it, next the character after cur ("" at
\* the end) and after the slice after next
Punctuation(inp, generic, cur, chars, next, after) ==
  CASE cur = ":" ->
         IF next = ":" THEN [token |-> DoubleColon, rest |-> after]
         ELSE [token |-> Separator(cur), rest |-> chars]
    [] cur \in {";", ",", "."} -> [token |-> Separator(cur), rest |-> chars]
    [] cur \in {"(", ")", "{", "}"} -> [token |-> Paren(cur), rest |-> chars]
    [] cur \in {"<", ">"} ->
         IF next = "=" /\ ~generic
         THEN [token |-> LogicalOperation(cur), rest |-> after]
         ELSE IF next = cur /\ ~generic
         THEN [token |-> ShiftOperation(cur), rest |-> after]
         ELSE [token |-> Paren(cur), rest |-> chars]
    [] cur \in {"[", "]"} ->
         IF next = cur THEN [token |-> DoubleParen(cur), rest |-> after]
         ELSE [token |-> Paren(cur), rest |-> chars]
    [] cur \in LowerCase \cup UpperCase \cup {"_"} ->
         [token |-> Word(consume_any(inp, WordChars).head),
          rest |-> consume_any(inp, WordChars).rest]
    [] cur = "\"" -> QuotedString(chars, Position(chars, {"\""}))
    [] cur = "/" /\ next = "/" -> LineComment(chars, Position(chars, LineBreaks))
    [] cur = "-" ->
         IF next = ">" THEN [token |-> Arrow, rest |-> after]
         ELSE [token |-> Operation(cur), rest |-> chars]
    [] cur \in {"+", "*", "%", "^"} \/ (cur = "/" /\ next # "/") ->
         [token |-> Operation(cur), rest |-> chars]
    [] cur \in {"!", "~"} ->
         IF next = "=" THEN [token |-> LogicalOperation(cur), rest |-> after]
         ELSE [token |-> Operation(cur), rest |-> chars]
    [] cur \in {"=", "&", "|"} ->
         IF next = cur THEN [token |-> LogicalOperation(cur), rest |-> after]
         ELSE [token |-> Operation(cur), rest |-> chars]
    [] cur \in WhiteSpace -> [token |-> Trivia, rest |-> consume_any(inp, WhiteSpace).rest]
    [] OTHER -> [token |-> Unknown(cur), rest |-> chars]

\* only a digit starts a number
StartsNumberDigit(cur, next) == cur \in Digits

\* the arms of consume_token that pass the whole slice to consume_number:
\* a digit, '.' before a digit, '-' before a digit or '.'
StartsNumber(cur, next) ==
  \/ cur \in Digits
  \/ cur = "." /\ next \in Digits
  \/ cur = "-" /\ (next \in Digits \/ next = ".")

Dispatch(inp, generic, cur, chars, next) ==
  IF StartsNumber(cur, next) THEN consume_number(inp)
  ELSE Punctuation(inp, generic, cur, chars, next,
                   IF chars = <<>> THEN <<>> ELSE Tail(chars))

\* consume_token whose '=' arm returns the slice it was given: the token is
\* returned and nothing is consumed
consume_token_stalled(inp, generic) ==
  IF inp = <<>> THEN [token |-> End, rest |-> inp]
  ELSE IF Head(inp) = "=" THEN [token |-> Operation("="), rest |-> inp]
  ELSE Dispatch(inp, generic, Head(inp), Tail(inp),
                IF Tail(inp) = <<>> THEN "" ELSE Head(Tail(inp)))

consume_token(inp, generic) ==
  IF inp = <<>> THEN [token |-> End, rest |-> inp]
  ELSE Dispatch(inp, generic, Head(inp), Tail(inp),
                IF Tail(inp) = <<>> THEN "" ELSE Head(Tail(inp)))

----------------------------------------------------------------------------
(* The cursor: struct Lexer { input, source } *)

Lexer(inp, src) == [input |-> inp, source |-> src]

\* the offset counted in characters instead of bytes
current_char_offset(self) == Len(self.source) - Len(self.input)

current_byte_offset(self) == str_len(self.source) - str_len(self.input)

\* one turn of the loop of next (generic = false) and next_generic (generic =
\* true): r is what consume_token returned, self the cursor with input = rest
RECURSIVE Scan(_, _, _)
Scanned(self, start_byte_offset, generic, token) ==
  IF token = Trivia
  THEN Scan(self, current_byte_offset(self), generic)
  ELSE [self |-> self, token |-> token,
        span |-> <<start_byte_offset, current_byte_offset(self)>>]

\* a turn of the loop that keeps the rest as its source as well
ScanStepRebased(self, start_byte_offset, generic, r) ==
  Scanned([self EXCEPT !.input = r.rest, !.source = r.rest], start_byte_offset,
          generic, r.token)

ScanStep(self, start_byte_offset, generic, r) ==
  Scanned([self EXCEPT !.input = r.rest], start_byte_offset, generic, r.token)

Scan(self, start_byte_offset, generic) ==
  ScanStep(self, start_byte_offset, generic, consume_token(self.input, generic))

next(self) == Scan(self, current_byte_offset(self), FALSE)

\* next_generic that passes generic = false to consume_token
next_generic_ordinary(self) == Scan(self, current_byte_offset(self), FALSE)

next_generic(self) == Scan(self, current_byte_offset(self), TRUE)

Peeked(self, cloned) ==
  [self |-> self, token |-> cloned.token, span |-> cloned.span,
   rest |-> cloned.self.input]

peek_token_and_rest(self) == Peeked(self, next(self))

PeekedToken(r) == [self |-> r.self, token |-> r.token, span |-> r.span]

\* peek that reads on the cursor itself, not on a clone
peek_advancing(self) == next(self)

peek(self) == PeekedToken(peek_token_and_rest(self))

----------------------------------------------------------------------------
(* Errors *)

NoToken == Tok("None", "", NoText)

NoSpan == <<0, 0>>

NoError == [kind |-> "None", token |-> NoToken, span |-> NoSpan,
            expected |-> "None", expected_token |-> NoToken]

\* Error::Unexpected((token, span), ExpectedToken::Token(expected))
UnexpectedToken(token, span, expected) ==
  [kind |-> "Unexpected", token |-> token, span |-> span,
   expected |-> "Token", expected_token |-> expected]

\* Error::Unexpected((token, span), ExpectedToken::Identifier)
UnexpectedIdentifier(token, span) ==
  [kind |-> "Unexpected", token |-> token, span |-> span,
   expected |-> "Identifier", expected_token |-> NoToken]

\* the error conv::map_storage_format reports for a word that is no format
UnknownStorageFormat(span) ==
  [kind |-> "UnknownStorageFormat", token |-> NoToken, span |-> span,
   expected |-> "None", expected_token |-> NoToken]

\* Error::Unexpected((token, span), ExpectedToken::Uint) and ::Sint
UnexpectedLiteral(token, span, expected) ==
  [kind |-> "Unexpected", token |-> token, span |-> span,
   expected |-> expected, expected_token |-> NoToken]

\* Error::BadU32(span, e) and Error::BadI32(span, e)
BadLiteral(kind, span) ==
  [kind |-> kind, token |-> NoToken, span |-> span,
   expected |-> "None", expected_token |-> NoToken]

\* Error::UnknownScalarType(span)
UnknownScalarType(span) ==
  [kind |-> "UnknownScalarType", token |-> NoToken, span |-> span,
   expected |-> "None", expected_token |-> NoToken]

\* the values the helpers return: an integer, as its sign and its decimal
\* digits without leading zeros, or a scalar kind with its width in bytes
NoValue == [kind |-> "None", neg |-> FALSE, digits |-> NoText, bytes |-> 0]

IntValue(neg, digits) == [kind |-> "Int", neg |-> neg, digits |-> digits, bytes |-> 0]

ScalarValue(kind, bytes) == [kind |-> kind, neg |-> FALSE, digits |-> NoText, bytes |-> bytes]

\* a Result: Ok with the fields of its value, or Err with the error; self is
\* the cursor the call leaves
Ok(self, token, span, ret) ==
  [self |-> self, ok |-> TRUE, token |-> token, span |-> span, ret |-> ret,
   value |-> NoValue, err |-> NoError]

OkValue(self, value, span) ==
  [self |-> self, ok |-> TRUE, token |-> NoToken, span |-> span, ret |-> FALSE,
   value |-> value, err |-> NoError]

Err(self, err) ==
  [self |-> self, ok |-> FALSE, token |-> NoToken, span |-> NoSpan, ret |-> FALSE,
   value |-> NoValue, err |-> err]

\* what a read returns, as a result
Read(n) == Ok(n.self, n.token, n.span, FALSE)

----------------------------------------------------------------------------
(* Operations on the cursor *)

\* ExpectSpanOf that compares the kinds of the tokens, not their payloads
ExpectKindOf(n, expected) ==
  IF n.token.kind = expected.kind
  THEN Ok(n.self, NoToken, n.span, FALSE)
  ELSE Err(n.self, UnexpectedToken(n.token, n.span, expected))

ExpectSpanOf(n, expected) ==
  IF n.token = expected
  THEN Ok(n.self, NoToken, n.span, FALSE)
  ELSE Err(n.self, UnexpectedToken(n.token, n.span, expected))

expect_span(self, expected) == ExpectSpanOf(next(self), expected)

\* self.expect_span(expected)?; Ok(())
Unit(r) == IF r.ok THEN Ok(r.self, NoToken, NoSpan, FALSE) ELSE r

expect(self, expected) == Unit(expect_span(self, expected))

ExpectGenericParenOf(n, expected) ==
  IF n.token = Paren(expected)
  THEN Ok(n.self, NoToken, NoSpan, FALSE)
  ELSE Err(n.self, UnexpectedToken(n.token, n.span, Paren(expected)))

\* expect_generic_paren reading its token in ordinary mode
expect_generic_paren_ordinary(self, expected) ==
  ExpectGenericParenOf(next(self), expected)

expect_generic_paren(self, expected) ==
  ExpectGenericParenOf(next_generic(self), expected)

\* SkipOf that commits the advance whether or not the token matches
SkipOfAlways(p, what) ==
  Ok([p.self EXCEPT !.input = p.rest], NoToken, NoSpan, p.token = what)

SkipOf(p, what) ==
  IF p.token = what
  THEN Ok([p.self EXCEPT !.input = p.rest], NoToken, NoSpan, TRUE)
  ELSE Ok(p.self, NoToken, NoSpan, FALSE)

skip(self, what) == SkipOf(peek_token_and_rest(self), what)

NextIdentWithSpanOf(n) ==
  IF n.token.kind = "Word"
  THEN Ok(n.self, n.token, n.span, FALSE)
  ELSE Err(n.self, UnexpectedIdentifier(n.token, n.span))

next_ident_with_span(self) == NextIdentWithSpanOf(next(self))

NextIdentOf(n) ==
  IF n.token.kind = "Word"
  THEN Ok(n.self, n.token, NoSpan, FALSE)
  ELSE Err(n.self, UnexpectedIdentifier(n.token, n.span))

next_ident(self) == NextIdentOf(next(self))

\* the decimal digits, in order: DigitSeq[d + 1] is the digit d
DigitSeq == <<"0", "1", "2", "3", "4", "5", "6", "7", "8", "9">>

\* char::to_digit(10) of a decimal digit
DigitOf(c) == (CHOOSE i \in 1..Len(DigitSeq) : DigitSeq[i] = c) - 1

\* the digits without their leading zeros ("0" for zero)
RECURSIVE StripZeros(_)
StripZeros(digits) ==
  IF Len(digits) > 1 /\ Head(digits) = "0" THEN StripZeros(Tail(digits)) ELSE digits

\* a <= b, for two runs of digits of the same length
RECURSIVE DigitsLE(_, _)
DigitsLE(a, b) ==
  IF a = <<>> THEN TRUE
  ELSE IF DigitOf(Head(a)) # DigitOf(Head(b)) THEN DigitOf(Head(a)) < DigitOf(Head(b))
  ELSE DigitsLE(Tail(a), Tail(b))

\* the number with the digits a (no leading zeros) is at most the limit
AtMost(a, limit) == Len(a) < Len(limit) \/ (Len(a) = Len(limit) /\ DigitsLE(a, limit))

\* u32::MAX, i32::MAX and -i32::MIN, in decimal
U32Max == <<"4", "2", "9", "4", "9", "6", "7", "2", "9", "5">>

I32Max == <<"2", "1", "4", "7", "4", "8", "3", "6", "4", "7">>

I32MinMagnitude == <<"2", "1", "4", "7", "4", "8", "3", "6", "4", "8">>

\* the digits of str::parse, after the sign it takes: a `+`, and for a signed
\* type a `-`
ParseDigits(text, signed) ==
  IF text # <<>> /\ (Head(text) = "+" \/ (signed /\ Head(text) = "-"))
  THEN Tail(text) ELSE text

\* str::parse with wrapping arithmetic: no digits are out of range
ParseUnchecked(neg, digits, signed) == TRUE

\* the checked multiply-and-add of str::parse: the digits are a number of
\* the type
ParseInRange(neg, digits, signed) ==
  AtMost(StripZeros(digits),
         IF ~signed THEN U32Max ELSE IF neg THEN I32MinMagnitude ELSE I32Max)

ParsedInt(neg, digits, signed) ==
  IF /\ digits # <<>>
     /\ \A i \in 1..Len(digits) : digits[i] \in Digits
     /\ ParseInRange(neg, digits, signed)
  THEN [ok |-> TRUE,
        value |-> IntValue(neg /\ StripZeros(digits) # <<"0">>, StripZeros(digits))]
  ELSE [ok |-> FALSE, value |-> NoValue]

\* value.parse::<u32>() (signed = false) and value.parse::<i32>() (signed = true)
parse(text, signed) ==
  ParsedInt(signed /\ text # <<>> /\ Head(text) = "-", ParseDigits(text, signed), signed)

\* v.map_err(|e| Error::BadU32(span, e)), and the same for BadI32
LiteralOf(n, v, bad) ==
  IF v.ok THEN OkValue(n.self, v.value, NoSpan) ELSE Err(n.self, BadLiteral(bad, n.span))

NextUintLiteralOf(n) ==
  IF n.token.kind = "Number"
  THEN LiteralOf(n, parse(n.token.text, FALSE), "BadU32")
  ELSE Err(n.self, UnexpectedLiteral(n.token, n.span, "Uint"))

next_uint_literal(self) == NextUintLiteralOf(next(self))

NextSintLiteralOf(n) ==
  IF n.token.kind = "Number"
  THEN LiteralOf(n, parse(n.token.text, TRUE), "BadI32")
  ELSE Err(n.self, UnexpectedLiteral(n.token, n.span, "Sint"))

next_sint_literal(self) == NextSintLiteralOf(next(self))

\* conv::get_scalar_type: the (kind, width in bytes) of a scalar type name
get_scalar_type(word) ==
  CASE word = <<"f", "3", "2">> -> [ok |-> TRUE, value |-> ScalarValue("Float", 4)]
    [] word = <<"i", "3", "2">> -> [ok |-> TRUE, value |-> ScalarValue("Sint", 4)]
    [] word = <<"u", "3", "2">> -> [ok |-> TRUE, value |-> ScalarValue("Uint", 4)]
    [] OTHER -> [ok |-> FALSE, value |-> NoValue]

\* next_scalar_generic and next_scalar_generic_with_span, a statement at a
\* time: each takes the result of the statement before it, and `?` returns
\* that result when it is an error; span is the span the call returns
ScalarGenericClose(value, span, c) ==
  IF ~c.ok THEN c ELSE OkValue(c.self, value, span)

ScalarGenericType(n, pair, with_span) ==
  IF n.token.kind = "Word" /\ pair.ok
  THEN ScalarGenericClose(pair.value, IF with_span THEN n.span ELSE NoSpan,
                          expect_generic_paren(n.self, ">"))
  ELSE Err(n.self, UnknownScalarType(n.span))

ScalarGenericWord(n, with_span) ==
  ScalarGenericType(n, get_scalar_type(n.token.text), with_span)

ScalarGenericOpen(a, with_span) ==
  IF ~a.ok THEN a ELSE ScalarGenericWord(next(a.self), with_span)

next_scalar_generic(self) ==
  ScalarGenericOpen(expect_generic_paren(self, "<"), FALSE)

next_scalar_generic_with_span(self) ==
  ScalarGenericOpen(expect_generic_paren(self, "<"), TRUE)

\* the storage formats conv::map_storage_format accepts
StorageFormats == {<<"r", "8", "u", "n", "o", "r", "m">>}

map_storage_format(word, span) ==
  IF word \in StorageFormats
  THEN [ok |-> TRUE, format |-> word, err |-> NoError]
  ELSE [ok |-> FALSE, format |-> NoText, err |-> UnknownStorageFormat(span)]

\* next_format_generic, a statement at a time: each takes the result of the
\* statement before it, and `?` returns that result when it is an error
FormatGenericClose(format, c) ==
  IF ~c.ok THEN c ELSE Ok(c.self, Word(format.format), NoSpan, FALSE)

FormatGenericFormat(b, format) ==
  IF ~format.ok THEN Err(b.self, format.err)
  ELSE FormatGenericClose(format, expect(b.self, Paren(">")))

FormatGenericIdent(b) ==
  IF ~b.ok THEN b
  ELSE FormatGenericFormat(b, map_storage_format(b.token.text, b.span))

FormatGenericOpen(a) ==
  IF ~a.ok THEN a ELSE FormatGenericIdent(next_ident_with_span(a.self))

next_format_generic(self) == FormatGenericOpen(expect(self, Paren("<")))

open_arguments(self) == expect(self, Paren("("))

close_arguments(self) == expect(skip(self, Separator(",")).self, Paren(")"))

\* NotSkipped without the negated skip: every `,` announces an argument
AlwaysMore(t) == Ok(t.self, NoToken, NoSpan, TRUE)

\* Ok(!self.skip(paren))
NotSkipped(t) == Ok(t.self, NoToken, NoSpan, ~t.ret)

\* self.expect(paren).map(|()| false)
\* .map(|()| true)
MapTrue(e) == IF e.ok THEN Ok(e.self, NoToken, NoSpan, TRUE) ELSE e

MapFalse(e) == IF e.ok THEN Ok(e.self, NoToken, NoSpan, FALSE) ELSE e

NextArgumentOf(s, paren) ==
  IF s.ret THEN NotSkipped(skip(s.self, paren))
  ELSE MapFalse(expect(s.self, paren))

next_argument(self) == NextArgumentOf(skip(self, Separator(",")), Paren(")"))

\* capture_span: start is the offset before inner ran, r what inner returned
CaptureSpanOf(start, r) ==
  IF r.ok THEN [r EXCEPT !.span = <<start, current_byte_offset(r.self)>>] ELSE r

\* capture_span taking its start offset after inner ran
capture_span_late(self, r) == CaptureSpanOf(current_byte_offset(r.self), r)

capture_span(self, r) == CaptureSpanOf(current_byte_offset(self), r)

\* the closures the callers of capture_span pass, by name
Closures == {"next_ident", "next_uint_literal", "next_scalar_generic"}

Closure(inner) == Tok("Closure", inner, NoText)

\* inner(self)
Inner(inner, self) ==
  CASE inner = "next_ident" -> next_ident(self)
    [] inner = "next_uint_literal" -> next_uint_literal(self)
    [] inner = "next_scalar_generic" -> next_scalar_generic(self)

----------------------------------------------------------------------------
(* The sources the cursor is run on *)

MaxLen == 3

\* every slice of at most n characters of the alphabet
Strs(alphabet, n) == UNION {[1..k -> alphabet] : k \in 0..n}

BracketChars == {"<", ">", "=", "a", " "}

ArgumentChars == {"(", ")", ",", "a"}

NumberChars == {"2", ".", "-", "e", "u"}

TextChars == {"\"", "a", "/", "\n", "U+E6"}

Examples ==
  { <<">", ">">>,
    <<"\"", "a", "b", "c">>,
    <<"\"", "a", "b", "\"", "c">>,
    <<"2", "u", "3", "o">>,
    <<"2", ".", "4", "f", "4", "4", "p", "o">>,
    <<"9", "2", "N", "o">>,
    <<"(", "a", ",", " ", "b", ",", ")">>,
    <<"(", "a", ",", " ", "b", ")">>,
    <<"(", ")">>,
    <<"<", "r", "8", "u", "n", "o", "r", "m", ">", ">">>,
    <<"<", "r", "8", "u", "n", "o", "r", "m", ">", "=">>,
    <<"<", " ", "r", "8", "u", "n", "o", "r", "m", " ", ">", ";">>,
    <<"U+E6", "N", "o", "U+F8">>,
    <<"N", "o", "U+597D">>,
    <<"N", "o", "U+BE">>,
    <<"#", "a", "U+F8", "$">>,
    <<"a", " ", "/", "/", " ", "b", "\r", "\n", "\t", "c", "/", "/", "d">>,
    <<"<", "f", "3", "2", ">", ">">>,
    <<" ", "<", " ", "u", "3", "2", " ", ">", "=">>,
    <<"<", "f", "3", "3", ">">>,
    <<"4", "2", "9", "4", "9", "6", "7", "2", "9", "5">>,
    <<"4", "2", "9", "4", "9", "6", "7", "2", "9", "6">>,
    <<"2", "1", "4", "7", "4", "8", "3", "6", "4", "7", "i">>,
    <<"2", "1", "4", "7", "4", "8", "3", "6", "4", "8">>,
    <<"-", "2", "1", "4", "7", "4", "8", "3", "6", "4", "8">>,
    <<"-", "2", "1", "4", "7", "4", "8", "3", "6", "4", "9">>,
    <<" ", "0", "0", "7", "u", "8">>,
    <<"1", ".", "2", ".", "3">>,
    <<"1", "-", "-", "2">>,
    <<"-", "1", "e", "-", "2", "e", "-", "3">> }

\* the source of test_variable_decl
VariableDecl ==
  <<"[", "[", " ", "g", "r", "o", "u", "p", "(", "0", " ", ")", "]", "]",
    " ", "v", "a", "r", "<", " ", "u", "n", "i", "f", "o", "r", "m", ">",
    " ", "t", "e", "x", "t", "u", "r", "e", ":", " ", " ", " ", "t", "e",
    "x", "t", "u", "r", "e", "_", "m", "u", "l", "t", "i", "s", "a", "m",
    "p", "l", "e", "d", "_", "2", "d", " ", "<", "f", "3", "2", " ", ">",
    ";">>

\* the characters of the punctuation arms of consume_token
PunctuationChars ==
  {":", ";", ",", ".", "(", ")", "{", "}", "<", ">", "[", "]", "/", "-", "+",
   "*", "%", "^", "!", "~", "=", "&", "|"}

\* a punctuation character and the character after it: another one, a
\* digit, a letter or a space
Pairs == {<<cur, second>> : cur \in PunctuationChars,
                            second \in PunctuationChars \cup {"2", "a", " "}}

Sources ==
  Strs(BracketChars, MaxLen) \cup Strs(ArgumentChars, MaxLen)
    \cup Strs(NumberChars, MaxLen) \cup Strs(TextChars, MaxLen) \cup Examples
    \cup Pairs \cup {VariableDecl}

\* the tokens the callers of expect, expect_span and skip pass
ExpectedTokens ==
  { Paren(">"), Paren(")"), Separator(","), Word(<<"a">>) }

\* the brackets the callers of expect_generic_paren pass
GenericParens == {"<", ">"}

----------------------------------------------------------------------------
(* State: the cursor (input, source), the last call and its result (res),  *)
(* and the position of a caller that walks an argument list (pc, nargs)    *)

Self == Lexer(input, source)

\* the record of a call: its name and argument, the remaining input before
\* it, and what it returned
Call(op, arg, r) ==
  [op |-> op, arg |-> arg, pre |-> input, ok |-> r.ok, ret |-> r.ret,
   token |-> r.token, span |-> r.span, value |-> r.value, err |-> r.err]

Returns(op, arg, r) ==
  /\ input' = r.self.input
  /\ source' = r.self.source
  /\ res' = Call(op, arg, r)

\* a call outside the argument-list protocol ends the walk of the list
NoList == pc' = "idle" /\ nargs' = 0

Init ==
  /\ source \in Sources
  /\ input = source
  /\ res = [op |-> "new", arg |-> NoToken, pre |-> source, ok |-> TRUE,
            ret |-> FALSE, token |-> NoToken, span |-> NoSpan, value |-> NoValue,
            err |-> NoError]
  /\ pc = "idle"
  /\ nargs = 0

CallNext == Returns("next", NoToken, Read(next(Self))) /\ NoList

CallNextGeneric == Returns("next_generic", NoToken, Read(next_generic(Self))) /\ NoList

CallPeek == Returns("peek", NoToken, Read(peek(Self))) /\ NoList

CallSkip ==
  \E what \in ExpectedTokens :
    Returns("skip", what, skip(Self, what)) /\ NoList

CallExpectSpan ==
  \E expected \in ExpectedTokens :
    Returns("expect_span", expected, expect_span(Self, expected)) /\ NoList

CallExpect ==
  \E expected \in ExpectedTokens :
    Returns("expect", expected, expect(Self, expected)) /\ NoList

CallExpectGenericParen ==
  \E expected \in GenericParens :
    Returns("expect_generic_paren", Paren(expected),
            expect_generic_paren(Self, expected)) /\ NoList

CallNextIdentWithSpan ==
  Returns("next_ident_with_span", NoToken, next_ident_with_span(Self)) /\ NoList

CallNextFormatGeneric ==
  Returns("next_format_generic", NoToken, next_format_generic(Self)) /\ NoList

CallNextUintLiteral ==
  Returns("next_uint_literal", NoToken, next_uint_literal(Self)) /\ NoList

CallNextSintLiteral ==
  Returns("next_sint_literal", NoToken, next_sint_literal(Self)) /\ NoList

CallNextScalarGeneric ==
  Returns("next_scalar_generic", NoToken, next_scalar_generic(Self)) /\ NoList

CallNextScalarGenericWithSpan ==
  Returns("next_scalar_generic_with_span", NoToken,
          next_scalar_generic_with_span(Self)) /\ NoList

CallCaptureSpan ==
  \E inner \in Closures :
    Returns("capture_span", Closure(inner), capture_span(Self, Inner(inner, Self)))
      /\ NoList

\* a step of the caller that walks an argument list: the call returns r; in
\* one of the places `from` the caller goes on to `to`, or to "error" when
\* the call failed, having parsed `parsed` more arguments
ListStep(op, r, from, to, parsed) ==
  /\ Returns(op, NoToken, r)
  /\ IF pc \in from
     THEN /\ pc' = IF r.ok THEN to ELSE "error"
          /\ nargs' = IF r.ok THEN nargs + parsed ELSE nargs
     ELSE NoList

\* the caller opens an argument list
CallOpenArguments ==
  /\ Returns("open_arguments", NoToken, open_arguments(Self))
  /\ pc' = IF res'.ok THEN "open" ELSE "error"
  /\ nargs' = 0

\* the caller parses one argument (an identifier) where the list may have one
CallNextIdent ==
  ListStep("next_ident", next_ident(Self), {"open", "more"}, "arg", 1)

\* the caller asks whether another argument follows the one it parsed
CallNextArgument ==
  ListStep("next_argument", next_argument(Self), {"arg"},
           IF res'.ret THEN "more" ELSE "done", 0)

\* the caller finishes the list
CallCloseArguments ==
  ListStep("close_arguments", close_arguments(Self), {"open", "arg"}, "done", 0)

Next ==
  \/ CallNext
  \/ CallNextGeneric
  \/ CallPeek
  \/ CallSkip
  \/ CallExpectSpan
  \/ CallExpect
  \/ CallExpectGenericParen
  \/ CallNextIdentWithSpan
  \/ CallNextIdent
  \/ CallNextFormatGeneric
  \/ CallNextUintLiteral
  \/ CallNextSintLiteral
  \/ CallNextScalarGeneric
  \/ CallNextScalarGenericWithSpan
  \/ CallCaptureSpan
  \/ CallOpenArguments
  \/ CallNextArgument
  \/ CallCloseArguments

Spec == Init /\ [][Next]_vars

----------------------------------------------------------------------------
(* Vocabulary of the properties *)

\* the calls that read a token: next and next_generic
Reads == {"next", "next_generic"}

\* the byte offset of the cursor when inp is what remains of the source
OffsetOf(inp) == str_len(source) - str_len(inp)

\* the characters of the source in the byte range span
SourceAt(span) ==
  SubSeq(source, CharsOfBytes(source, span[1]) + 1, CharsOfBytes(source, span[2]))

\* the last call was a read that met no trivia before its token
ReadAtCursor == res.op \in Reads /\ res.span[1] = OffsetOf(res.pre)

\* s starts with the characters p
StartsWith(s, p) == Len(s) >= Len(p) /\ SubSeq(s, 1, Len(p)) = p

\* what next returns when inp is what remains
NextFrom(inp) == next(Lexer(inp, source))

----------------------------------------------------------------------------
(* C1: in generic mode `<` and `>` never combine.  On the text `>>`        *)
(* next_generic returns Paren('>') with span [0,1) and then Paren('>')     *)
(* with span [1,2), while next returns ShiftOperation('>') with span       *)
(* [0,2); and on every input that starts with `<` or `>` the raw scanner   *)
(* in generic mode returns the one-character Paren, whatever follows.      *)
C1_GenericSuppression ==
  /\ (input # <<>> /\ Head(input) \in {"<", ">"}) =>
       consume_token(input, TRUE) = [token |-> Paren(Head(input)), rest |-> Tail(input)]
  /\ (res.op = "next_generic" /\ res.pre # <<>> /\ Head(res.pre) \in {"<", ">"}) =>
       /\ res.token = Paren(Head(res.pre))
       /\ res.span = <<OffsetOf(res.pre), OffsetOf(res.pre) + 1>>
       /\ input = Tail(res.pre)
  /\ (source = <<">", ">">> /\ res.op = "next" /\ res.pre = source) =>
       /\ res.token = ShiftOperation(">")
       /\ res.span = <<0, 2>>
       /\ input = <<>>

C1_Witness ==
  /\ source = <<">", ">">>
  /\ res.op = "next_generic"
  /\ res.pre = <<">">>
  /\ res.token = Paren(">")
  /\ res.span = <<1, 2>>

(* C2: an input that begins with `"` and has no later `"` reads as an      *)
(* UnterminatedString whose payload is all the text after the quote, and   *)
(* no input remains.                                                       *)
C2_UnterminatedString ==
  (/\ res.op \in Reads
   /\ res.pre # <<>>
   /\ Head(res.pre) = "\""
   /\ Position(Tail(res.pre), {"\""}) = 0) =>
     /\ res.token.kind = "UnterminatedString"
     /\ res.token.text = Tail(res.pre)
     /\ input = <<>>

(* C3: reading terminates and End is stable.  Every raw-scanner call on   *)
(* non-empty input consumes at least one byte, and every read either       *)
(* leaves less input than it found or returns End, so that at most         *)
(* len(source) + 1 reads, in any mix of the two modes, reach End; End is   *)
(* returned only when no input remains; a read with no input left returns  *)
(* End with the span [len, len) and leaves the cursor alone; and a cursor  *)
(* at the end stays at the end, whatever is called.                        *)
C3_Termination ==
  /\ [](input # <<>> =>
          \A generic \in BOOLEAN :
            str_len(consume_token(input, generic).rest) < str_len(input))
  /\ [][res'.op \in Reads =>
          (str_len(input') < str_len(input) \/ res'.token = End)]_vars
  /\ []((res.op \in Reads /\ res.token = End) => input = <<>>)
  /\ []((res.op \in Reads /\ res.pre = <<>>) =>
          /\ res.token = End
          /\ res.span = <<str_len(source), str_len(source)>>
          /\ input = <<>>)
  /\ [][input = <<>> => input' = <<>>]_vars

C3_Witness ==
  /\ res.op \in Reads
  /\ res.pre = <<>>
  /\ res.token = End
  /\ Len(source) = MaxLen

(* C4: next_format_generic never lets the closing bracket combine: on `<`, *)
(* a known format, `>` and then `>` or `=`, it succeeds and leaves that    *)
(* last character unread.                                                  *)
C4_FormatGenericBrackets ==
  \A format \in StorageFormats : \A following \in {">", "="} :
    (res.op = "next_format_generic"
       /\ res.pre = <<"<">> \o format \o <<">", following>>) =>
      /\ res.ok
      /\ input = <<following>>

(* C5: a number is its core, then either a type tag `u`, `i` or `f` with   *)
(* the maximal run of digits after it as the width, or no tag: then the    *)
(* type is 'f' if the core has a `.` and 'i' if not, and the width is      *)
(* empty.  The remaining input starts right after what was taken.          *)
C5_NumberDecomposition ==
  /\ (ReadAtCursor /\ res.pre # <<>> /\ Head(res.pre) \in Digits) =>
       res.token.kind = "Number"
  /\ (ReadAtCursor /\ res.token.kind = "Number") =>
       LET value == res.token.text
           rest == DropChars(res.pre, Len(value))
           width == res.token.width
       IN /\ value # <<>>
          /\ StartsWith(res.pre, value)
          /\ IF rest # <<>> /\ Head(rest) \in {"u", "i", "f"}
             THEN /\ res.token.ty = Head(rest)
                  /\ StartsWith(Tail(rest), width)
                  /\ \A i \in 1..Len(width) : width[i] \in Digits
                  /\ input = DropChars(Tail(rest), Len(width))
                  /\ input # <<>> => Head(input) \notin Digits
                  /\ res.pre = value \o <<res.token.ty>> \o width \o input
             ELSE /\ res.token.ty = IF \E i \in 1..Len(value) : value[i] = "."
                                    THEN "f" ELSE "i"
                  /\ width = <<>>
                  /\ input = rest
                  /\ res.pre = value \o input
  /\ (res.op = "next" /\ res.pre = source) =>
       /\ source = <<"2", "u", "3", "o">> =>
            res.token = Number(<<"2">>, "u", <<"3">>) /\ input = <<"o">>
       /\ source = <<"2", ".", "4", "f", "4", "4", "p", "o">> =>
            res.token = Number(<<"2", ".", "4">>, "f", <<"4", "4">>)
              /\ input = <<"p", "o">>
       /\ source = <<"9", "2", "N", "o">> =>
            res.token = Number(<<"9", "2">>, "i", <<>>) /\ input = <<"N", "o">>
  /\ (res.op = "next" /\ source = <<"2", "u", "3", "o">> /\ res.pre = <<"o">>) =>
       res.token = Word(<<"o">>)
  /\ (res.op = "next" /\ source = <<"9", "2", "N", "o">> /\ res.pre = <<"N", "o">>) =>
       res.token = Word(<<"N", "o">>)

C5_Witness ==
  /\ source = <<"2", ".", "4", "f", "4", "4", "p", "o">>
  /\ res.op = "next"
  /\ res.pre = source
  /\ res.token.width = <<"4", "4">>
  /\ input = <<"p", "o">>

(* C6: the argument-list protocol.  A caller that opens the list and then *)
(* alternates parsing an argument with next_argument, or finishes with     *)
(* close_arguments, ends having visited two arguments on `(a, b,)`, two on *)
(* `(a, b)` and none on `()`, without error and with the cursor just past  *)
(* the `)`.  The only walks that fail are those that close the list before *)
(* its last argument, or parse an argument in the empty list.              *)
C6_ArgumentListProtocol ==
  /\ source \in {<<"(", "a", ",", " ", "b", ",", ")">>, <<"(", "a", ",", " ", "b", ")">>} =>
       /\ pc = "done" => (nargs = 2 /\ res.ok /\ input = <<>>)
       /\ pc = "error" =>
            \/ res.op = "open_arguments" /\ res.pre # source
            \/ res.op = "close_arguments" /\ nargs < 2
  /\ source = <<"(", ")">> =>
       /\ pc = "done" => (nargs = 0 /\ res.ok /\ input = <<>>)
       /\ pc = "error" =>
            \/ res.op = "open_arguments" /\ res.pre # source
            \/ res.op = "next_ident"

C6_Witness ==
  /\ source = <<"(", "a", ",", " ", "b", ",", ")">>
  /\ pc = "done"
  /\ res.op = "next_argument"
  /\ nargs = 2
  /\ input = <<>>

(* C7: peek has no effect on the cursor, a read-next right after a peek    *)
(* returns the token and span the peek returned, and so does another peek. *)
C7_PeekNoEffect ==
  /\ [](res.op = "peek" =>
          /\ input = res.pre
          /\ res.token = NextFrom(input).token
          /\ res.span = NextFrom(input).span)
  /\ [][(res.op = "peek" /\ res'.op \in {"next", "peek"}) =>
          (res'.token = res.token /\ res'.span = res.span)]_vars

C7_Witness ==
  /\ res.op = "peek"
  /\ res.token.kind = "Word"
  /\ res.span[1] > OffsetOf(res.pre)
  /\ OffsetOf(input) > 0
  /\ input = res.pre

(* C8: skip(token) returns true and leaves the cursor just past the next   *)
(* non-trivia token of ordinary mode when that token is the given one;     *)
(* otherwise it returns false and the cursor is where it was, trivia       *)
(* included.  skip(Paren('>')) on `>>` returns false.                      *)
C8_Skip ==
  /\ res.op = "skip" =>
       /\ res.ok
       /\ IF NextFrom(res.pre).token = res.arg
          THEN res.ret /\ input = NextFrom(res.pre).self.input
          ELSE ~res.ret /\ input = res.pre
  /\ (res.op = "skip" /\ res.arg = Paren(">")) =>
       /\ res.pre = <<">", ">">> => (~res.ret /\ input = res.pre)
       /\ res.pre = <<" ", ">", "a">> => (res.ret /\ input = <<"a">>)
       /\ res.pre = <<" ", "a", ">">> => (~res.ret /\ input = res.pre)

C8_Witness ==
  /\ res.op = "skip"
  /\ res.arg = Paren(">")
  /\ res.pre = <<" ", ">", "a">>
  /\ res.ret
  /\ input = <<"a">>

(* C9: expect and expect_span always consume the next non-trivia token.    *)
(* They succeed when it is the expected token, kind and payload            *)
(* (expect_span with its span), and otherwise fail with the unexpected-    *)
(* token error that carries the actual token, its span and the expected    *)
(* token; the cursor is then just past the offending token.                *)
C9_Expect ==
  res.op \in {"expect", "expect_span"} =>
    /\ input = NextFrom(res.pre).self.input
    /\ IF NextFrom(res.pre).token = res.arg
       THEN /\ res.ok
            /\ res.op = "expect_span" => res.span = NextFrom(res.pre).span
       ELSE /\ ~res.ok
            /\ res.err.kind = "Unexpected"
            /\ res.err.token = NextFrom(res.pre).token
            /\ res.err.span = NextFrom(res.pre).span
            /\ res.err.expected = "Token"
            /\ res.err.expected_token = res.arg

C9_Witness ==
  /\ res.op = "expect_span"
  /\ res.arg = Word(<<"a">>)
  /\ ~res.ok
  /\ res.err.token = Word(<<"a", "a">>)
  /\ res.err.span = <<1, 3>>
  /\ OffsetOf(input) = 3

\* the text a token stands for, delimiters included; the content of an
\* unterminated string is the text after its quote, up to the end of input
TextOf(token, content) ==
  CASE token.kind = "Word" -> {token.text}
    [] token.kind = "Number" ->
         {token.text \o <<token.ty>> \o token.width} \cup
           (IF token.width = <<>> THEN {token.text} ELSE {})
    [] token.kind = "String" -> {<<"\"">> \o token.text \o <<"\"">>}
    [] token.kind = "UnterminatedString" -> {<<"\"">> \o content}
    [] token.kind \in {"Separator", "Paren", "Operation", "Unknown"} -> {<<token.ch>>}
    [] token.kind \in {"DoubleParen", "ShiftOperation"} -> {<<token.ch, token.ch>>}
    [] token.kind = "LogicalOperation" -> {<<token.ch, "=">>, <<token.ch, token.ch>>}
    [] token.kind = "DoubleColon" -> {<<":", ":">>}
    [] token.kind = "Arrow" -> {<<"-", ">">>}
    [] OTHER -> {<<>>}

(* C10: span fidelity.  The span of every token a read returns lies in     *)
(* the source, ends at the cursor, starts and ends on a character          *)
(* boundary, has no trivia at its ends, and the source text at the span is *)
(* the token's text: the word, the number's core with its explicit tag and *)
(* width, the punctuation, the quotes with the string between them, and    *)
(* for an unterminated string the quote and the content after it.          *)
C10_SpanFidelity ==
  res.op \in Reads =>
    /\ 0 <= res.span[1]
    /\ res.span[1] <= res.span[2]
    /\ res.span[2] <= str_len(source)
    /\ OffsetOf(res.pre) <= res.span[1]
    /\ res.span[2] = OffsetOf(input)
    /\ CharsOfBytes(source, res.span[1]) >= 0
    /\ CharsOfBytes(source, res.span[2]) >= 0
    /\ SourceAt(res.span) \in
         TextOf(res.token, DropChars(source, CharsOfBytes(source, res.span[1]) + 1))
    /\ res.token # Trivia
    /\ (res.token.kind \notin {"End", "String", "UnterminatedString"}) =>
         /\ Head(SourceAt(res.span)) \notin WhiteSpace
         /\ SourceAt(res.span)[Len(SourceAt(res.span))] \notin WhiteSpace

----------------------------------------------------------------------------
\* the calls that parse a scalar generic
ScalarGenerics == {"next_scalar_generic", "next_scalar_generic_with_span"}

\* the three reads of a scalar generic that starts where inp remains: the
\* opening bracket and the closing bracket in generic mode, the word between
\* them in ordinary mode
GenericOpenFrom(inp) == next_generic(Lexer(inp, source))

GenericWordFrom(inp) == next(GenericOpenFrom(inp).self)

GenericCloseFrom(inp) == next_generic(GenericWordFrom(inp).self)

\* the second read is a word the scalar-type lookup recognizes
RecognizedWordFrom(inp) ==
  /\ GenericWordFrom(inp).token.kind = "Word"
  /\ get_scalar_type(GenericWordFrom(inp).token.text).ok

(* C11: scalar generic, with and without the inner span.  The call         *)
(* succeeds exactly when the input is `<`, a word the scalar-type lookup   *)
(* recognizes, `>`, with both brackets read in generic mode: it returns    *)
(* the pair of the lookup and leaves the cursor after the first `>`, so    *)
(* that on `<f32>>` the cursor stops at offset 5.  After a `<`, a word the *)
(* lookup does not recognize fails with UnknownScalarType and that word's  *)
(* span.  The with-span variant returns the span of the word, which is the *)
(* word's text in the source, without brackets or whitespace.              *)
C11_ScalarGeneric ==
  res.op \in ScalarGenerics =>
    /\ res.ok <=> /\ GenericOpenFrom(res.pre).token = Paren("<")
                  /\ RecognizedWordFrom(res.pre)
                  /\ GenericCloseFrom(res.pre).token = Paren(">")
    /\ res.ok =>
         /\ res.value = get_scalar_type(GenericWordFrom(res.pre).token.text).value
         /\ input = GenericCloseFrom(res.pre).self.input
    /\ (res.ok /\ res.op = "next_scalar_generic_with_span") =>
         /\ res.span = GenericWordFrom(res.pre).span
         /\ SourceAt(res.span) = GenericWordFrom(res.pre).token.text
    /\ (GenericOpenFrom(res.pre).token = Paren("<") /\ ~RecognizedWordFrom(res.pre)) =>
         /\ ~res.ok
         /\ res.err = UnknownScalarType(GenericWordFrom(res.pre).span)
    /\ (res.pre = source /\ source = <<"<", "f", "3", "2", ">", ">">>) =>
         res.ok /\ OffsetOf(input) = 5 /\ input = <<">">>

\* ` < u32 >=` parsed with its span: the span is the word u32 at [3, 6), and
\* the `=` after the closing bracket is left unread
C11_Witness ==
  /\ res.op = "next_scalar_generic_with_span"
  /\ res.ok
  /\ res.pre = <<" ", "<", " ", "u", "3", "2", " ", ">", "=">>
  /\ res.value = ScalarValue("Uint", 4)
  /\ res.span = <<3, 6>>
  /\ input = <<"=">>

----------------------------------------------------------------------------
\* the characters consume_token has an arm for
RecognizedChars ==
  Digits \cup LowerCase \cup UpperCase \cup WhiteSpace \cup
    {":", ";", ",", ".", "(", ")", "{", "}", "<", ">", "[", "]", "_", "\"",
     "/", "-", "+", "*", "%", "^", "!", "~", "=", "&", "|"}

\* the tokens of a complete tokenization with next, End included
RECURSIVE TokensFrom(_)
TokensAfter(n) ==
  IF n.token = End THEN <<End>> ELSE <<n.token>> \o TokensFrom(n.self)

TokensFrom(self) == TokensAfter(next(self))

TokensOf(src) == TokensFrom(Lexer(src, src))

\* the longest run of word characters at the start of s
WordRun(s) ==
  CHOOSE w \in {SubSeq(s, 1, k) : k \in 0..Len(s)} :
    /\ \A i \in 1..Len(w) : w[i] \in WordChars
    /\ (Len(w) < Len(s) => s[Len(w) + 1] \notin WordChars)

\* the input at the start of the token of the last read
TokenStart == DropChars(source, CharsOfBytes(source, res.span[1]))

(* C12: Unicode safety.  A read whose token starts at a character outside  *)
(* the recognized set returns Unknown of that character, its span is the   *)
(* whole encoding of the character (2 bytes for U+E6, U+F8 and U+BE, 3 for *)
(* U+597D) and the cursor is just after it; an Unknown token is returned   *)
(* for no other character.  Every offset the cursor reaches and both ends  *)
(* of every span are character boundaries.  A word next to such a          *)
(* character is the word it is on its own: the longest run of word         *)
(* characters, which read alone is the same Word.  The test sources give   *)
(* Unknown(U+E6) Word(No) Unknown(U+F8) End, Word(No) Unknown(U+BE) End    *)
(* and Word(No) Unknown(U+597D) End.                                       *)
C12_UnicodeSafety ==
  /\ CharsOfBytes(source, OffsetOf(input)) >= 0
  /\ res.op \in Reads =>
       /\ CharsOfBytes(source, res.span[1]) >= 0
       /\ CharsOfBytes(source, res.span[2]) >= 0
       /\ res.token.kind = "Unknown" <=>
            (TokenStart # <<>> /\ Head(TokenStart) \notin RecognizedChars)
       /\ res.token.kind = "Unknown" =>
            /\ res.token = Unknown(Head(TokenStart))
            /\ res.span[2] - res.span[1] = Utf8Len(res.token.ch)
            /\ SourceAt(res.span) = <<res.token.ch>>
            /\ input = Tail(TokenStart)
       /\ (res.token.kind = "Unknown" /\ res.token.ch \in {"U+E6", "U+F8", "U+BE"}) =>
            res.span[2] - res.span[1] = 2
       /\ (res.token.kind = "Unknown" /\ res.token.ch = "U+597D") =>
            res.span[2] - res.span[1] = 3
       /\ (TokenStart # <<>> /\ Head(TokenStart) \in LowerCase \cup UpperCase \cup {"_"}) =>
            /\ res.token = Word(WordRun(TokenStart))
            /\ TokensOf(WordRun(TokenStart)) = <<res.token, End>>
            /\ input = DropChars(TokenStart, Len(WordRun(TokenStart)))
  /\ source = <<"U+E6", "N", "o", "U+F8">> =>
       TokensOf(source) = <<Unknown("U+E6"), Word(<<"N", "o">>), Unknown("U+F8"), End>>
  /\ source = <<"N", "o", "U+BE">> =>
       TokensOf(source) = <<Word(<<"N", "o">>), Unknown("U+BE"), End>>
  /\ source = <<"N", "o", "U+597D">> =>
       TokensOf(source) = <<Word(<<"N", "o">>), Unknown("U+597D"), End>>

\* U+597D of `N o U+597D` read after the word: the token is Unknown of the
\* character, its span is the three bytes [2, 5) and the cursor is at the end
C12_Witness ==
  /\ source = <<"N", "o", "U+597D">>
  /\ res.op = "next"
  /\ res.pre = <<"U+597D">>
  /\ res.token = Unknown("U+597D")
  /\ res.span = <<2, 5>>
  /\ input = <<>>

----------------------------------------------------------------------------
\* what the closure of the last capture_span returns when it is called on
\* its own, on the cursor capture_span was called on
InnerAlone == Inner(res.arg.ch, Lexer(res.pre, source))

\* the span of the last token the closure reads when it succeeds
LastTokenSpan(inner, inp) ==
  IF inner = "next_scalar_generic" THEN GenericCloseFrom(inp).span
  ELSE NextFrom(inp).span

\* the span of the first token the closure reads
FirstTokenSpan(inner, inp) ==
  IF inner = "next_scalar_generic" THEN GenericOpenFrom(inp).span
  ELSE NextFrom(inp).span

(* C13: capture_span(inner).  It succeeds exactly when inner does.  On     *)
(* success it returns the result of inner with the span from the offset of *)
(* the cursor before inner ran to the offset after: the span starts at the *)
(* call-time offset, at or before the first token inner reads (trivia      *)
(* before that token is inside the span), and ends at the end of the last  *)
(* token inner reads.  On failure it returns the error of inner, and in    *)
(* both cases the cursor is where inner leaves it.                         *)
C13_CaptureSpan ==
  res.op = "capture_span" =>
    /\ res.ok = InnerAlone.ok
    /\ input = InnerAlone.self.input
    /\ res.ok =>
         /\ res.value = InnerAlone.value
         /\ res.token = InnerAlone.token
         /\ res.ret = InnerAlone.ret
         /\ res.span = <<OffsetOf(res.pre), OffsetOf(input)>>
         /\ res.span[1] <= FirstTokenSpan(res.arg.ch, res.pre)[1]
         /\ res.span[2] = LastTokenSpan(res.arg.ch, res.pre)[2]
         /\ SourceAt(res.span) = TakeChars(res.pre, Len(res.pre) - Len(input))
    /\ ~res.ok =>
         /\ res.err = InnerAlone.err
         /\ res.err # NoError

\* ` 007u8` captured around next_uint_literal: the value is 7 and the span
\* [0, 6) starts at the space before the number
C13_Witness ==
  /\ res.op = "capture_span"
  /\ res.arg = Closure("next_uint_literal")
  /\ res.pre = <<" ", "0", "0", "7", "u", "8">>
  /\ res.ok
  /\ res.value = IntValue(FALSE, <<"7">>)
  /\ res.span = <<0, 6>>
  /\ input = <<>>

----------------------------------------------------------------------------
\* the integer literal helpers, and for each whether its type is signed
Literals == {"next_uint_literal", "next_sint_literal"}

Signed(op) == op = "next_sint_literal"

\* the number written with at most 9 decimal digits
RECURSIVE Decimal(_)
Decimal(d) ==
  IF d = <<>> THEN 0 ELSE 10 * Decimal(SubSeq(d, 1, Len(d) - 1)) + DigitOf(d[Len(d)])

\* the number written with the digits d, up to 14 of them, as how many times
\* 100000 it holds and what is left
Hi(d) == IF Len(d) > 5 THEN Decimal(SubSeq(d, 1, Len(d) - 5)) ELSE 0

Lo(d) == IF Len(d) > 5 THEN Decimal(SubSeq(d, Len(d) - 4, Len(d))) ELSE Decimal(d)

\* the digits d write a number of at most hi * 100000 + lo
Within(d, hi, lo) == Len(d) <= 14 /\ (Hi(d) < hi \/ (Hi(d) = hi /\ Lo(d) <= lo))

\* the text of a Number token without its leading `-`
Unsigned(text) == IF text # <<>> /\ Head(text) = "-" THEN Tail(text) ELSE text

Negative(text) == text # <<>> /\ Head(text) = "-"

\* the text is a decimal integer of the type: digits only, after a `-` for a
\* signed type only, from 0 to 4294967295 or from -2147483648 to 2147483647
WellFormed(text, signed) ==
  /\ Negative(text) => signed
  /\ Unsigned(text) # <<>>
  /\ \A i \in 1..Len(Unsigned(text)) : Unsigned(text)[i] \in Digits
  /\ IF ~signed THEN Within(Unsigned(text), 42949, 67295)
     ELSE IF Negative(text) THEN Within(Unsigned(text), 21474, 83648)
     ELSE Within(Unsigned(text), 21474, 83647)

(* C14: the integer literal helpers.  Each reads one token with next.  If  *)
(* it is a Number, the helper succeeds exactly when the value text is a    *)
(* decimal integer in the range of u32 (no sign) or i32 (an optional `-`), *)
(* and then returns the number the text writes; otherwise it fails with    *)
(* BadU32 or BadI32 and the span of that token.  The tag and the width of  *)
(* the token play no part: ` 007u8` is 7 for both helpers and              *)
(* `2147483647i` is 2147483647 for the unsigned one.  If the token is not  *)
(* a Number, the helper fails with Unexpected, that token and its span.    *)
C14_IntegerLiterals ==
  res.op \in Literals =>
    /\ input = NextFrom(res.pre).self.input
    /\ NextFrom(res.pre).token.kind = "Number" =>
         /\ res.ok <=> WellFormed(NextFrom(res.pre).token.text, Signed(res.op))
         /\ res.ok =>
              /\ res.value.kind = "Int"
              /\ Hi(res.value.digits) = Hi(Unsigned(NextFrom(res.pre).token.text))
              /\ Lo(res.value.digits) = Lo(Unsigned(NextFrom(res.pre).token.text))
              /\ res.value.neg =
                   (Negative(NextFrom(res.pre).token.text) /\ res.value.digits # <<"0">>)
         /\ ~res.ok =>
              res.err = BadLiteral(IF Signed(res.op) THEN "BadI32" ELSE "BadU32",
                                   NextFrom(res.pre).span)
    /\ NextFrom(res.pre).token.kind # "Number" =>
         /\ ~res.ok
         /\ res.err.kind = "Unexpected"
         /\ res.err.token = NextFrom(res.pre).token
         /\ res.err.span = NextFrom(res.pre).span
         /\ res.err.expected = (IF Signed(res.op) THEN "Sint" ELSE "Uint")
    /\ res.pre = <<" ", "0", "0", "7", "u", "8">> =>
         res.ok /\ res.value = IntValue(FALSE, <<"7">>)
    /\ (res.pre = <<"2", "1", "4", "7", "4", "8", "3", "6", "4", "7", "i">>
          /\ res.op = "next_uint_literal") =>
         res.ok /\ res.value = IntValue(FALSE, I32Max)

\* `4294967296`, one more than the largest u32, read by next_uint_literal:
\* BadU32 with the span [0, 10) of the token, and the token is consumed
C14_Witness ==
  /\ res.op = "next_uint_literal"
  /\ res.pre = <<"4", "2", "9", "4", "9", "6", "7", "2", "9", "6">>
  /\ ~res.ok
  /\ res.err = BadLiteral("BadU32", <<0, 10>>)
  /\ input = <<>>

----------------------------------------------------------------------------
ExponentMarkers == {"e", "E"}

\* the character s[i] is accepted, the characters before it having been:
\* dot_after_exponent says whether a '.' is accepted directly after an
\* exponent marker
Accepted(s, i, dot_after_exponent) ==
  IF i = 1 THEN s[i] \in Digits \cup {"-", "."}
  ELSE IF s[i] \in ExponentMarkers THEN TRUE
  ELSE IF s[i - 1] \in ExponentMarkers
  THEN s[i] \in Digits \cup {"-"} \cup (IF dot_after_exponent THEN {"."} ELSE {})
  ELSE s[i] \in Digits \cup {"."}

\* the longest prefix of s whose characters are all accepted
LongestAccepted(s, dot_after_exponent) ==
  TakeChars(s,
    CHOOSE k \in 0..Len(s) :
      /\ \A i \in 1..k : Accepted(s, i, dot_after_exponent)
      /\ k < Len(s) => ~Accepted(s, k + 1, dot_after_exponent))

\* the last call read a Number token
ReadNumber == res.op \in Reads /\ res.token.kind = "Number"

(* C15 as claimed: the core of a Number token is the longest prefix of the *)
(* input at the token in which the first character is a digit, `-` or `.`, *)
(* an `e` or `E` at a later position is accepted, the character directly   *)
(* after an `e` or `E` is a digit, `.` or `-`, and every other character   *)
(* is a digit or `.`.                                                      *)
C15_NumberCoreAutomaton ==
  ReadNumber => res.token.text = LongestAccepted(TokenStart, TRUE)

(* C15, amended: the core of a Number token is the longest prefix of the   *)
(* input at the token in which the first character is a digit, `-` or `.`, *)
(* an `e` or `E` at a later position is accepted, the character directly   *)
(* after an `e` or `E` is a digit or `-` (a `.` there ends the core), and  *)
(* every other character is a digit or `.`.  The core is kept verbatim: it *)
(* is the source text at the start of the token's span.                    *)
C15_NumberCoreAmended ==
  ReadNumber =>
    /\ res.token.text = LongestAccepted(TokenStart, FALSE)
    /\ res.token.text = TakeChars(SourceAt(res.span), Len(res.token.text))

\* `2e.`: the core is `2e`, and the `.` after the exponent marker is left
C15_Witness ==
  /\ ReadNumber
  /\ res.pre = <<"2", "e", ".">>
  /\ res.token = Number(<<"2", "e">>, "i", NoText)
  /\ input = <<".">>

----------------------------------------------------------------------------
\* the sources of the claim, and one with three `-` in its core
ManyDots == <<"1", ".", "2", ".", "3">>

ManyMinus == <<"1", "-", "-", "2">>

ManyExponents == <<"-", "1", "e", "-", "2", "e", "-", "3">>

\* how many times the character c is in s
RECURSIVE Count(_, _)
Count(s, c) ==
  IF s = <<>> THEN 0 ELSE (IF Head(s) = c THEN 1 ELSE 0) + Count(Tail(s), c)

(* C16 as claimed: each of `1.2.3` and `1--2` is read as one Number token  *)
(* whose value is the whole text, followed by End, and an integer literal  *)
(* helper called on it fails on the value text.                            *)
C16_LenientScan ==
  /\ (res.op = "next" /\ res.pre = source /\ source \in {ManyDots, ManyMinus}) =>
       /\ res.token.kind = "Number"
       /\ res.token.text = source
       /\ input = <<>>
       /\ TokensOf(source) = <<res.token, End>>
  /\ (res.op \in Literals /\ res.pre = source /\ source \in {ManyDots, ManyMinus}) =>
       /\ ~res.ok
       /\ res.err.kind \in {"BadU32", "BadI32"}
       /\ res.err.span = <<0, str_len(source)>>

(* C16, amended: the core takes any number of `.` after the first          *)
(* character, but a `-` only as the first character or directly after an   *)
(* exponent marker.  `1.2.3` is one Number token with the value `1.2.3`,   *)
(* followed by End, and the integer literal helpers reject it with their   *)
(* bad-literal error and the span of the whole token; so is                *)
(* `-1e-2e-3`, whose core has three `-`.  `1--2` is three tokens:          *)
(* Number `1`, Operation `-`, Number `-2`, then End, and a literal helper  *)
(* called on it returns 1 and leaves `--2` unread.  No read fails: a       *)
(* Number whose value has a `.` is rejected only by the helper.            *)
C16_LenientScanAmended ==
  /\ ReadNumber =>
       \A i \in 2..Len(res.token.text) :
         res.token.text[i] = "-" => res.token.text[i - 1] \in ExponentMarkers
  /\ (res.op = "next" /\ res.pre = source /\ source \in {ManyDots, ManyExponents}) =>
       /\ res.token.kind = "Number"
       /\ res.token.text = source
       /\ input = <<>>
       /\ TokensOf(source) = <<res.token, End>>
  /\ (res.op \in Literals /\ res.pre = source /\ source \in {ManyDots, ManyExponents}) =>
       /\ ~res.ok
       /\ res.err.kind \in {"BadU32", "BadI32"}
       /\ res.err.span = <<0, str_len(source)>>
  /\ source = ManyMinus =>
       TokensOf(source) = <<Number(<<"1">>, "i", NoText), Operation("-"),
                            Number(<<"-", "2">>, "i", NoText), End>>
  /\ (res.op = "next" /\ res.pre = source /\ source = ManyMinus) =>
       /\ res.token = Number(<<"1">>, "i", NoText)
       /\ input = <<"-", "-", "2">>
  /\ (res.op \in Literals /\ res.pre = source /\ source = ManyMinus) =>
       /\ res.ok
       /\ res.value = IntValue(FALSE, <<"1">>)
       /\ input = <<"-", "-", "2">>
  /\ (res.op \in Literals /\ NextFrom(res.pre).token.kind = "Number"
        /\ Count(NextFrom(res.pre).token.text, ".") >= 1) =>
       /\ ~res.ok
       /\ res.err.kind \in {"BadU32", "BadI32"}

\* the second read of `1--2`: the Operation `-` at [1, 2), with `-2` left
C16_Witness ==
  /\ source = ManyMinus
  /\ res.op = "next"
  /\ res.pre = <<"-", "-", "2">>
  /\ res.token = Operation("-")
  /\ res.span = <<1, 2>>
  /\ input = <<"-", "2">>

----------------------------------------------------------------------------
\* the token next reads where inp remains, and the token after it
FirstFrom(inp) == NextFrom(inp)

SecondFrom(inp) == NextFrom(FirstFrom(inp).self.input)

(* C17: next_argument.  It returns true exactly when the next token is `,` *)
(* and the token after it is not `)`, and then the `,` is the one token it *)
(* has consumed: the cursor is at the end of the `,`.  It returns false    *)
(* when the next tokens are `,` `)` and when the next token is `)`, with   *)
(* the cursor at the end of that `)`.  When the next token is neither `,`  *)
(* nor `)` it fails with Unexpected, that token and its span, expecting    *)
(* `)`, and the token is consumed.                                         *)
C17_NextArgument ==
  res.op = "next_argument" =>
    /\ (res.ok /\ res.ret) <=>
         /\ FirstFrom(res.pre).token = Separator(",")
         /\ SecondFrom(res.pre).token # Paren(")")
    /\ (res.ok /\ res.ret) =>
         /\ input = FirstFrom(res.pre).self.input
         /\ OffsetOf(input) = FirstFrom(res.pre).span[2]
         /\ SourceAt(<<OffsetOf(input) - 1, OffsetOf(input)>>) = <<",">>
    /\ (FirstFrom(res.pre).token = Separator(",") /\ SecondFrom(res.pre).token = Paren(")")) =>
         /\ res.ok /\ ~res.ret
         /\ input = SecondFrom(res.pre).self.input
    /\ FirstFrom(res.pre).token = Paren(")") =>
         /\ res.ok /\ ~res.ret
         /\ input = FirstFrom(res.pre).self.input
    /\ (res.ok /\ ~res.ret) =>
         /\ OffsetOf(input) > OffsetOf(res.pre)
         /\ SourceAt(<<OffsetOf(input) - 1, OffsetOf(input)>>) = <<")">>
    /\ FirstFrom(res.pre).token \notin {Separator(","), Paren(")")} =>
         /\ ~res.ok
         /\ res.err = UnexpectedToken(FirstFrom(res.pre).token, FirstFrom(res.pre).span,
                                      Paren(")"))
         /\ input = FirstFrom(res.pre).self.input

\* `(a, b,)` after the second argument: the trailing `,` and the `)` are
\* both consumed and the answer is false
C17_Witness ==
  /\ source = <<"(", "a", ",", " ", "b", ",", ")">>
  /\ res.op = "next_argument"
  /\ res.pre = <<",", ")">>
  /\ res.ok
  /\ ~res.ret
  /\ input = <<>>

----------------------------------------------------------------------------
\* s is what remains of src after some of its characters
IsSuffix(s, src) ==
  /\ Len(s) <= Len(src)
  /\ s = SubSeq(src, Len(src) - Len(s) + 1, Len(src))

(* C18: the cursor invariant.  In every state, whatever calls were made    *)
(* and whether they succeeded or failed, the remaining input is a suffix   *)
(* of the source and the offset len(source) - len(input) is between 0 and  *)
(* len(source), on a character boundary.  No call changes the source, and  *)
(* no call makes the offset smaller.                                       *)
C18_CursorInvariant ==
  /\ [](/\ IsSuffix(input, source)
        /\ str_len(source) - str_len(input) \in 0..str_len(source)
        /\ DropChars(source, CharsOfBytes(source, str_len(source) - str_len(input))) = input)
  /\ [][/\ source' = source
        /\ str_len(source') - str_len(input') >= str_len(source) - str_len(input)]_vars

\* a failed capture_span that has moved the cursor and left input to read
C18_Witness ==
  /\ res.op = "capture_span"
  /\ ~res.ok
  /\ IsSuffix(input, source)
  /\ str_len(input) < str_len(res.pre)
  /\ input # <<>>

----------------------------------------------------------------------------
\* the reads of a complete tokenization with next, each with its token and
\* its span, the read of End included
RECURSIVE ReadsFrom(_)
ReadsAfter(n) == IF n.token = End THEN <<n>> ELSE <<n>> \o ReadsFrom(n.self)

ReadsFrom(self) == ReadsAfter(next(self))

ReadsOf(src) == ReadsFrom(Lexer(src, src))

\* g is made of whitespace runs and `//` comments only, each comment running
\* through its line break, or to the end of g if g ends the source
RECURSIVE TriviaOnly(_, _)
TriviaOnly(g, ends_source) ==
  IF g = <<>> THEN TRUE
  ELSE IF Head(g) \in {" ", "\n", "\r", "\t"} THEN TriviaOnly(Tail(g), ends_source)
  ELSE IF Len(g) >= 2 /\ g[1] = "/" /\ g[2] = "/"
  THEN IF \E i \in 2..Len(g) : g[i] \in {"\n", "\r"}
       THEN TriviaOnly(
              DropChars(g, CHOOSE i \in 2..Len(g) :
                             /\ g[i] \in {"\n", "\r"}
                             /\ \A j \in 2..(i - 1) : g[j] \notin {"\n", "\r"}),
              ends_source)
       ELSE ends_source
  ELSE FALSE

\* the bytes of the source between the read before rs[i] and rs[i]
GapBefore(rs, i) ==
  SourceAt(<<IF i = 1 THEN 0 ELSE rs[i - 1].span[2], rs[i].span[1]>>)

\* the tokenization rs of the source drops only trivia
OnlyTriviaDropped(rs) ==
  /\ \A i \in 1..Len(rs) : rs[i].token # Trivia
  /\ \A i \in 1..(Len(rs) - 1) :
       /\ rs[i].span[1] < rs[i].span[2]
       /\ rs[i].span[2] <= rs[i + 1].span[1]
       /\ rs[i].span[1] < rs[i + 1].span[1]
  /\ \A i \in 1..Len(rs) : \A j \in 1..Len(rs) :
       i < j => rs[i].span[2] <= rs[j].span[1]
  /\ \A i \in 1..Len(rs) :
       TriviaOnly(GapBefore(rs, i), rs[i].span[1] = str_len(source))
  /\ rs[Len(rs)].span = <<str_len(source), str_len(source)>>

(* C19: only trivia is dropped.  In the complete tokenization of the       *)
(* source with next, no token is Trivia; every token before End has a      *)
(* non-empty span, each span starts at or after the end of the one before  *)
(* it, so the spans are pairwise disjoint and in source order; and the     *)
(* bytes before, between and after the spans are whitespace and `//`       *)
(* comments, each comment running through the next line break or to the    *)
(* end of the source.  Read by read: what next skips between the cursor    *)
(* and the token it returns is such trivia, and the cursor ends where the  *)
(* span ends.                                                              *)
C19_OnlyTriviaDropped ==
  /\ res.op = "next" =>
       /\ res.token # Trivia
       /\ OffsetOf(res.pre) <= res.span[1]
       /\ res.span[2] = OffsetOf(input)
       /\ res.token # End => res.span[1] < res.span[2]
       /\ TriviaOnly(SourceAt(<<OffsetOf(res.pre), res.span[1]>>),
                     res.span[1] = str_len(source))
  /\ (res.op = "next" /\ res.token = End) => OnlyTriviaDropped(ReadsOf(source))

\* the end of `a // b\r\n\tc//d` read after c: the comment `//d` runs to the
\* end of the source and is dropped, and End is at [13, 13)
C19_Witness ==
  /\ source = <<"a", " ", "/", "/", " ", "b", "\r", "\n", "\t", "c", "/", "/", "d">>
  /\ res.op = "next"
  /\ res.pre = <<"/", "/", "d">>
  /\ res.token = End
  /\ res.span = <<13, 13>>
  /\ Len(ReadsOf(source)) = 3
  /\ ReadsOf(source)[2].token = Word(<<"c">>)
  /\ ReadsOf(source)[2].span = <<9, 10>>

----------------------------------------------------------------------------
\* the pairs of characters the claim lists, and the token of each
CombinedPairs ==
  {<<":", ":">>, <<"[", "[">>, <<"]", "]">>, <<"<", "<">>, <<">", ">">>,
   <<"<", "=">>, <<">", "=">>, <<"!", "=">>, <<"~", "=">>,
   <<"=", "=">>, <<"&", "&">>, <<"|", "|">>, <<"-", ">">>}

CombinedToken(cur, second) ==
  CASE cur = ":" -> DoubleColon
    [] cur \in {"[", "]"} -> DoubleParen(cur)
    [] cur \in {"<", ">"} /\ second = cur -> ShiftOperation(cur)
    [] cur = "-" -> Arrow
    [] OTHER -> LogicalOperation(cur)

\* the one-character token of a punctuation character
SingleToken(cur) ==
  CASE cur \in {":", ";", ",", "."} -> Separator(cur)
    [] cur \in {"(", ")", "{", "}", "<", ">", "[", "]"} -> Paren(cur)
    [] OTHER -> Operation(cur)

\* the last call was next on input that starts with a punctuation character
ReadPunctuation ==
  res.op = "next" /\ res.pre # <<>> /\ Head(res.pre) \in PunctuationChars

\* the character after the first one of the input of the last call
SecondChar == IF Len(res.pre) >= 2 THEN res.pre[2] ELSE ""

\* the pairs that are neither combined nor read as one character: a line
\* comment, and the starts of a number
CommentPair == Head(res.pre) = "/" /\ SecondChar = "/"

NumberPair ==
  \/ Head(res.pre) \in {".", "-"} /\ SecondChar \in Digits
  \/ Head(res.pre) = "-" /\ SecondChar = "."

\* the tokens test_variable_decl expects, and End
VariableDeclTokens ==
  <<DoubleParen("["),
    Word(<<"g", "r", "o", "u", "p">>),
    Paren("("),
    Number(<<"0">>, "i", NoText),
    Paren(")"),
    DoubleParen("]"),
    Word(<<"v", "a", "r">>),
    Paren("<"),
    Word(<<"u", "n", "i", "f", "o", "r", "m">>),
    Paren(">"),
    Word(<<"t", "e", "x", "t", "u", "r", "e">>),
    Separator(":"),
    Word(<<"t", "e", "x", "t", "u", "r", "e", "_", "m", "u", "l", "t", "i", "s",
         "a", "m", "p", "l", "e", "d", "_", "2", "d">>),
    Paren("<"),
    Word(<<"f", "3", "2">>),
    Paren(">"),
    Separator(";"),
    End>>

(* C20 as claimed: in ordinary mode, on input that starts with a           *)
(* punctuation character, next returns the two-character token of the pair *)
(* when the first two characters are one of the listed pairs, and in every *)
(* other case the one-character Separator, Paren or Operation of the first *)
(* character, leaving the second character unread.                         *)
C20_TwoCharPunctuation ==
  ReadPunctuation =>
    IF <<Head(res.pre), SecondChar>> \in CombinedPairs
    THEN /\ res.token = CombinedToken(Head(res.pre), SecondChar)
         /\ input = DropChars(res.pre, 2)
    ELSE /\ res.token = SingleToken(Head(res.pre))
         /\ input = Tail(res.pre)

(* C20, amended: as claimed, except for three kinds of pair that are       *)
(* neither combined into a two-character token nor read as a one-character *)
(* token: `//` starts a line comment, which is dropped, so that next       *)
(* returns the token after the comment; `.` or `-` before a digit, and `-` *)
(* before `.`, start a Number whose value begins with both characters.     *)
(* The characters of a pair combine only when adjacent: a space after the  *)
(* first one gives its one-character token.  The source of                 *)
(* test_variable_decl gives DoubleParen for `[[` and `]]` and a Paren for  *)
(* each `<` and `>`.                                                       *)
C20_TwoCharPunctuationAmended ==
  /\ ReadPunctuation =>
       /\ <<Head(res.pre), SecondChar>> \in CombinedPairs =>
            /\ res.token = CombinedToken(Head(res.pre), SecondChar)
            /\ input = DropChars(res.pre, 2)
            /\ res.span = <<OffsetOf(res.pre), OffsetOf(res.pre) + 2>>
       /\ CommentPair =>
            /\ res.span[1] >= OffsetOf(res.pre) + 2
            /\ res.token = NextFrom(DropChars(res.pre, 2 + Position(DropChars(res.pre, 2), {"\n", "\r"}))).token
                 \/ (Position(DropChars(res.pre, 2), {"\n", "\r"}) = 0 /\ res.token = End)
       /\ NumberPair =>
            /\ res.token.kind = "Number"
            /\ StartsWith(res.token.text, <<Head(res.pre), SecondChar>>)
       /\ (<<Head(res.pre), SecondChar>> \notin CombinedPairs /\ ~CommentPair /\ ~NumberPair) =>
            /\ res.token = SingleToken(Head(res.pre))
            /\ input = Tail(res.pre)
            /\ res.span = <<OffsetOf(res.pre), OffsetOf(res.pre) + 1>>
       /\ SecondChar = " " => res.token = SingleToken(Head(res.pre))
  /\ source = VariableDecl => TokensOf(source) = VariableDeclTokens

\* `-.`: neither an Arrow nor the Operation `-`, but a Number with the
\* value `-.`
C20_Witness ==
  /\ ReadPunctuation
  /\ res.pre = <<"-", ".">>
  /\ res.token = Number(<<"-", ".">>, "f", NoText)
  /\ input = <<>>

====
